---- MODULE Spec2Model ----
(***************************************************************************)
(* Model of core/microservice.go (tmail): the microservice hooks of the    *)
(* SMTP server (smtpdnewclient, smtpdrcptto, smtpddata) and of the         *)
(* delivery daemon (deliverdgetroutes).                                    *)
(*                                                                         *)
(* One behaviour is one run of one hook.  The configuration (the ordered   *)
(* list of endpoint references of the hook), the session's authentication  *)
(* and its relay flag are drawn in Init.  The remote side is the           *)
(* environment: every call draws its network result from NetResults.       *)
(***************************************************************************)
EXTENDS Integers, Sequences, FiniteSets, TLC

(***************************************************************************)
(* Bounds of the model                                                     *)
(***************************************************************************)
\* longest configured endpoint list
MaxEndpoints == 2

\* most parameters in the query of a reference that is parsed from its text
MaxParams == 2

(***************************************************************************)
(* onfailure (microservice.go:22-29)                                       *)
(***************************************************************************)
CONTINUE == 1
TEMPFAIL == 2
PERMFAIL == 3

DefaultTimeout == 30

(***************************************************************************)
(* Endpoint references.  A reference is modelled by the values             *)
(* url.Query().Get returns for the four parameters the parser reads ("" =  *)
(* parameter absent); the timeout value is kept as its sequence of         *)
(* characters because the parser converts it.                              *)
(***************************************************************************)
Uri(skip, ff, to, onf) ==
    [skipauthentifieduser |-> skip, fireandforget |-> ff, timeout |-> to, onfailure |-> onf]

UriPlain    == Uri("", "", <<>>, "")
UriTempFail == Uri("", "", <<"0">>, "tempfail")
UriPermFail == Uri("", "", <<"5">>, "permfail")
UriForget   == Uri("", "true", <<>>, "permfail")
UriSkip     == Uri("true", "", <<>>, "tempfail")
UriSkipFF   == Uri("true", "true", <<>>, "")
UriBadTime  == Uri("", "", <<"a", "b">>, "permfail")

Uris == {UriPlain, UriTempFail, UriPermFail, UriForget, UriSkip, UriSkipFF, UriBadTime}

RECURSIVE SeqsUpTo(_, _)
SeqsUpTo(S, n) ==
    IF n = 0 THEN {<<>>}
    ELSE LET shorter == SeqsUpTo(S, n - 1)
         IN shorter \cup {Append(s, x) : s \in {t \in shorter : Len(t) = n - 1}, x \in S}

Hooks == {"smtpdnewclient", "smtpdrcptto", "smtpddata", "deliverdgetroutes"}

(***************************************************************************)
(* strconv.ParseUint(s, 10, 64): a non-empty string of decimal digits.     *)
(* The range error (value >= 2^64) needs 20 digits or more; the timeout    *)
(* texts of Uris are far shorter, so only the syntax error is modelled.    *)
(***************************************************************************)
DigitVal == [c \in {"0", "1", "2", "3", "4", "5", "6", "7", "8", "9"} |->
               CASE c = "0" -> 0 [] c = "1" -> 1 [] c = "2" -> 2 [] c = "3" -> 3
                 [] c = "4" -> 4 [] c = "5" -> 5 [] c = "6" -> 6 [] c = "7" -> 7
                 [] c = "8" -> 8 [] c = "9" -> 9]

RECURSIVE DecimalValue(_)
DecimalValue(s) ==
    IF s = <<>> THEN 0
    ELSE 10 * DecimalValue(SubSeq(s, 1, Len(s) - 1)) + DigitVal[s[Len(s)]]

ParseUint(s) ==
    IF s = <<>> \/ \E k \in 1..Len(s) : s[k] \notin DOMAIN DigitVal
    THEN [err |-> TRUE, val |-> 0]
    ELSE [err |-> FALSE, val |-> DecimalValue(s)]

(***************************************************************************)
(* newMicroservice (microservice.go:41-77)                                 *)
(***************************************************************************)
newMicroservice(uri) ==
    LET t  == IF uri.timeout # <<>> THEN ParseUint(uri.timeout)
              ELSE [err |-> FALSE, val |-> DefaultTimeout]
        of == CASE uri.onfailure = "tempfail" -> TEMPFAIL
                [] uri.onfailure = "permfail" -> PERMFAIL
                [] OTHER -> CONTINUE
    IN [err |-> t.err,
        ms  |-> [skipAuthentifiedUser |-> (uri.skipauthentifieduser = "true"),
                 fireAndForget        |-> (uri.fireandforget = "true"),
                 timeout              |-> t.val,
                 onFailure            |-> of]]

(***************************************************************************)
(* The text of a reference, as newMicroservice receives it: a sequence of  *)
(* tokens.  "?", "&" and "=" are the separator characters, a digit or a    *)
(* letter of a timeout value is a token of its own, any other token is a   *)
(* run of characters without separator (an address, a parameter name, a    *)
(* keyword).  Escapes, fragments and texts url.Parse rejects are not       *)
(* modelled.                                                               *)
(***************************************************************************)
IndexOf(text, sep) ==
    IF \E k \in 1..Len(text) : text[k] = sep
    THEN CHOOSE k \in 1..Len(text) : text[k] = sep /\ \A j \in 1..(k - 1) : text[j] # sep
    ELSE 0

\* strings.Split(text, sep)
RECURSIVE Split(_, _)
Split(text, sep) ==
    LET k == IndexOf(text, sep)
    IN IF k = 0 THEN <<text>>
       ELSE <<SubSeq(text, 1, k - 1)>> \o Split(SubSeq(text, k + 1, Len(text)), sep)

\* url.Parse(uri).RawQuery: what follows the first "?"
RawQuery(text) ==
    LET k == IndexOf(text, "?")
    IN IF k = 0 THEN <<>> ELSE SubSeq(text, k + 1, Len(text))

\* url.ParseQuery: the key=value pairs between "&", a pair cut at its first "="
ParseQuery(raw) ==
    LET parts == SelectSeq(Split(raw, "&"), LAMBDA part : part # <<>>)
    IN [n \in 1..Len(parts) |->
           LET k == IndexOf(parts[n], "=")
           IN IF k = 0 THEN [key |-> parts[n], value |-> <<>>]
              ELSE [key   |-> SubSeq(parts[n], 1, k - 1),
                    value |-> SubSeq(parts[n], k + 1, Len(parts[n]))]]

\* url.Values.Get with the last value of a repeated key
GetLast(query, key) ==
    IF \E n \in 1..Len(query) : query[n].key = <<key>>
    THEN query[CHOOSE n \in 1..Len(query) :
                   /\ query[n].key = <<key>>
                   /\ \A j \in (n + 1)..Len(query) : query[j].key # <<key>>].value
    ELSE <<>>

\* url.Values.Get: the first value of the key, empty when the key is absent
Get(query, key) ==
    IF \E n \in 1..Len(query) : query[n].key = <<key>>
    THEN query[CHOOSE n \in 1..Len(query) :
                   /\ query[n].key = <<key>>
                   /\ \A j \in 1..(n - 1) : query[j].key # <<key>>].value
    ELSE <<>>

\* a value as the string the parser compares with its keywords; a value of
\* several tokens is a text that is none of them
Text(value) ==
    IF value = <<>> THEN "" ELSE IF Len(value) = 1 THEN value[1] ELSE "(text)"

\* parsed.Query().Get of the four parameters (microservice.go:54-69)
QueryValues(text) ==
    LET query == ParseQuery(RawQuery(text))
    IN Uri(Text(Get(query, "skipauthentifieduser")), Text(Get(query, "fireandforget")),
           Get(query, "timeout"), Text(Get(query, "onfailure")))

\* newMicroservice on the text of a reference: ms.url is t[0] of
\* strings.Split(uri, "?") (microservice.go:47-48)
parseUri(text) ==
    LET r == newMicroservice(QueryValues(text))
    IN [err |-> r.err, url |-> Split(text, "?")[1], ms |-> r.ms]

(***************************************************************************)
(* The references that are parsed from their text: an address and up to    *)
(* MaxParams parameters, written address?key=value&key=value.              *)
(***************************************************************************)
Param(k, v) == [key |-> k, value |-> v]

Params ==
    {Param("skipauthentifieduser", <<"true">>), Param("skipauthentifieduser", <<"false">>),
     Param("fireandforget", <<"true">>), Param("fireandforget", <<"1">>),
     Param("timeout", <<>>), Param("timeout", <<"5">>), Param("timeout", <<"1", "2">>),
     Param("timeout", <<"a", "b">>),
     Param("onfailure", <<"continue">>), Param("onfailure", <<"tempfail">>),
     Param("onfailure", <<"permfail">>), Param("onfailure", <<"bogus">>),
     Param("foo", <<"bar">>), Param("foo", <<"?">>)}

Givens == [address : {"http://h/x"}, params : SeqsUpTo(Params, MaxParams)]

RECURSIVE RenderParams(_)
RenderParams(params) ==
    IF params = <<>> THEN <<>>
    ELSE <<Head(params).key, "=">> \o Head(params).value
         \o (IF Tail(params) = <<>> THEN <<>> ELSE <<"&">> \o RenderParams(Tail(params)))

Render(g) ==
    <<g.address>> \o (IF g.params = <<>> THEN <<>> ELSE <<"?">> \o RenderParams(g.params))

NoGiven == [address |-> "", params |-> <<>>]
NotParsed == [done |-> FALSE, err |-> FALSE, url |-> <<>>, ms |-> newMicroservice(UriPlain).ms]

(***************************************************************************)
(* The wire.  A response body either decodes (proto.Unmarshal succeeds) to *)
(* a message of the hook's response type or does not.  A decoded message   *)
(* carries the optional SmtpResponse (code, msg), DropConnection and the   *)
(* hook's own field: RelayGranted, ExtraHeaders or Routes.                 *)
(***************************************************************************)
NoSmtp == [present |-> FALSE, code |-> 0, msg |-> ""]
Smtp(c, m) == [present |-> TRUE, code |-> c, msg |-> m]

SmtpResponses == {NoSmtp, Smtp(0, "no"), Smtp(554, ""), Smtp(554, "no")}

WireRoute == [remoteHost |-> "mx", localIp |-> "", remotePort |-> 0, priority |-> 1]

NoExt == [relayGranted |-> FALSE, extraHeaders |-> <<>>, routes |-> <<>>]
SomeExt == [relayGranted |-> TRUE, extraHeaders |-> <<"X-A">>, routes |-> <<WireRoute>>]
OtherExt == [relayGranted |-> FALSE, extraHeaders |-> <<"X-B">>, routes |-> <<>>]

Messages ==
    {[smtpResponse |-> r, dropConnection |-> d, ext |-> e] :
        r \in SmtpResponses, d \in BOOLEAN, e \in {NoExt, SomeExt, OtherExt}}

Garbage == [wellFormed |-> FALSE]
Bodies == {Garbage} \cup {[wellFormed |-> TRUE, msg |-> m] : m \in Messages}

\* proto.Unmarshal (microservice.go:202, 268, 356, 414)
Unmarshal(body) ==
    IF body.wellFormed THEN [err |-> FALSE, msg |-> body.msg]
    ELSE [err |-> TRUE, msg |-> [smtpResponse |-> NoSmtp, dropConnection |-> FALSE, ext |-> NoExt]]

Statuses == {101, 200, 304, 404}

\* the bodies sent with a status other than 200: one that does not decode,
\* an empty message, a reply with extension data
StatusBodies ==
    {Garbage,
     [wellFormed |-> TRUE,
      msg |-> [smtpResponse |-> NoSmtp, dropConnection |-> FALSE, ext |-> NoExt]],
     [wellFormed |-> TRUE,
      msg |-> [smtpResponse |-> Smtp(554, "no"), dropConnection |-> FALSE, ext |-> SomeExt]]}

\* what client.Do and ioutil.ReadAll can give: an error (network failure,
\* deadline, body read error) or a status with a body
NetError == [kind |-> "error", status |-> 0, body |-> Garbage]
NetResults ==
    {NetError}
    \cup {[kind |-> "http", status |-> 200, body |-> b] : b \in Bodies}
    \cup {[kind |-> "http", status |-> st, body |-> b] :
             st \in Statuses \ {200}, b \in StatusBodies}

(***************************************************************************)
(* call (microservice.go:90-106)                                           *)
(***************************************************************************)
call(r) ==
    IF r.kind = "error" THEN [err |-> TRUE, body |-> Garbage]
    ELSE IF r.status > 399 THEN [err |-> TRUE, body |-> Garbage]
    ELSE [err |-> FALSE, body |-> r.body]

\* stopOnError with the default case returning true
stopOnErrorDefaultTrue(ms) == TRUE

(***************************************************************************)
(* stopOnError (microservice.go:109-118)                                   *)
(***************************************************************************)
stopOnError(ms) ==
    CASE ms.onFailure = PERMFAIL -> TRUE
      [] ms.onFailure = TEMPFAIL -> TRUE
      [] OTHER -> FALSE

\* handleSMTPError answering 550 in both cases
handleSMTPErrorOneCode(ms) ==
    CASE ms.onFailure = PERMFAIL ->
           [stop |-> TRUE, out |-> <<[code |-> 550, msg |-> "sorry something wrong happened"]>>]
      [] ms.onFailure = TEMPFAIL ->
           [stop |-> TRUE, out |-> <<[code |-> 550, msg |-> "sorry something wrong happened"]>>]
      [] OTHER -> [stop |-> FALSE, out |-> <<>>]

(***************************************************************************)
(* handleSMTPError (microservice.go:123-138), called with err # nil: the   *)
(* replies it writes with s.out and the stop it returns.                   *)
(***************************************************************************)
ErrorText == "sorry something wrong happened"

handleSMTPError(ms) ==
    CASE ms.onFailure = PERMFAIL -> [stop |-> TRUE, out |-> <<[code |-> 550, msg |-> ErrorText]>>]
      [] ms.onFailure = TEMPFAIL -> [stop |-> TRUE, out |-> <<[code |-> 450, msg |-> ErrorText]>>]
      [] OTHER -> [stop |-> FALSE, out |-> <<>>]

\* handleSMTPResponse without the stop = true after the reply is sent
handleSMTPResponseNoStop(smtpResponse) ==
    IF smtpResponse.present /\ smtpResponse.code # 0 /\ smtpResponse.msg # ""
    THEN [stop |-> FALSE, out |-> <<[code |-> smtpResponse.code, msg |-> smtpResponse.msg]>>]
    ELSE [stop |-> FALSE, out |-> <<>>]

\* handleSMTPResponse testing the code alone
handleSMTPResponseCodeOnly(smtpResponse) ==
    IF smtpResponse.present /\ smtpResponse.code # 0
    THEN [stop |-> TRUE, out |-> <<[code |-> smtpResponse.code, msg |-> smtpResponse.msg]>>]
    ELSE [stop |-> FALSE, out |-> <<>>]

\* handleSMTPResponse with || in place of && in the test of code and msg
handleSMTPResponseEither(smtpResponse) ==
    IF smtpResponse.present /\ (smtpResponse.code # 0 \/ smtpResponse.msg # "")
    THEN [stop |-> TRUE, out |-> <<[code |-> smtpResponse.code, msg |-> smtpResponse.msg]>>]
    ELSE [stop |-> FALSE, out |-> <<>>]

(***************************************************************************)
(* handleSMTPResponse (microservice.go:141-153)                            *)
(***************************************************************************)
handleSMTPResponse(smtpResponse) ==
    IF ~smtpResponse.present THEN [stop |-> FALSE, out |-> <<>>]
    ELSE IF smtpResponse.code # 0 /\ smtpResponse.msg # ""
         THEN [stop |-> TRUE,
               out |-> <<[code |-> smtpResponse.code, msg |-> smtpResponse.msg]>>]
         ELSE [stop |-> FALSE, out |-> <<>>]

(***************************************************************************)
(* Route built from a wire route (microservice.go:422-436)                 *)
(***************************************************************************)
ToRoute(w) ==
    [RemoteHost |-> w.remoteHost,
     LocalIp    |-> [String |-> w.localIp, Valid |-> (w.localIp # "")],
     RemotePort |-> [Int64 |-> w.remotePort, Valid |-> (w.remotePort # 0)],
     Priority   |-> [Int64 |-> w.priority, Valid |-> (w.priority # 0)]]

(***************************************************************************)
(* State                                                                   *)
(***************************************************************************)
VARIABLES
    hook,          \* the hook that runs
    uris,          \* Cfg.GetMicroservicesUri(hook)
    user,          \* s.user # nil (smtpd hooks), d.qMsg.AuthUser # "" (deliverd)
    relay0,        \* s.relayGranted when the hook is entered
    pc,            \* "start", "loop", "wait" (inside a synchronous call), "done", "panic"
    i,             \* position in uris of the endpoint being visited
    stop,          \* the result stop
    exitPath,      \* the return statement taken
    out,           \* replies written with s.out, oldest first
    exitAsap,      \* s.exitAsap() was called
    relayGranted,  \* s.relayGranted
    extraHeaders,  \* *extraHeaders
    routes,        \* the result routes: nil or a list
    tempFile,      \* the temporary file of smtpdData: "none", "exists", "removed"
    encoded,       \* proto.Marshal gave a payload
    called,        \* the calls started, in order: endpoint and "sync" or "go"
    policy,        \* endpoints whose onFailure was evaluated on an error
    tasks,         \* per endpoint, the goroutine of go ms.call: "none", "running", "ok", "err"
    lastNet,       \* what the network gave to the last synchronous call
    lastRet,       \* what call returned for it
    remote,        \* during a synchronous call: the endpoint "answers" or stays "silent"
    lastGranted,   \* "granted"/"denied": GetRelayGranted() of the last response msSmtpdRcptTo decoded; "none" before
    headerLog,     \* GetExtraHeaders() of the responses smtpdData decoded, oldest first
    given,         \* the reference whose text is parsed: its address and parameters
    reference,     \* its text, the argument of newMicroservice
    parsed         \* what newMicroservice returned for it

vars == <<hook, uris, user, relay0, pc, i, stop, exitPath, out, exitAsap, relayGranted,
          extraHeaders, routes, tempFile, encoded, called, policy, tasks, lastNet, lastRet,
          remote, lastGranted, headerLog, given, reference, parsed>>

parsing == <<given, reference, parsed>>
config  == <<hook, uris, user, relay0, parsing>>
session == <<out, exitAsap, relayGranted>>
network == <<called, policy, tasks, lastNet, lastRet, remote>>
decoded == <<lastGranted, headerLog>>

NoCall == [kind |-> "none", status |-> 0, body |-> Garbage]
NoRoutes == [nil |-> FALSE, list |-> <<>>]
NilRoutes == [nil |-> TRUE, list |-> <<>>]

\* a hook that has not started
Entry ==
    /\ pc = "start"
    /\ i = 0
    /\ stop = FALSE
    /\ exitPath = "none"
    /\ out = <<>>
    /\ exitAsap = FALSE
    /\ relayGranted = relay0
    /\ extraHeaders = <<>>
    /\ routes = NoRoutes
    /\ tempFile = "none"
    /\ encoded = FALSE
    /\ called = <<>>
    /\ policy = {}
    /\ tasks = [k \in 1..Len(uris) |-> "none"]
    /\ lastNet = NoCall
    /\ lastRet = [err |-> FALSE, body |-> Garbage]
    /\ remote = "idle"
    /\ lastGranted = "none"
    /\ headerLog = <<>>

Init ==
    /\ hook \in Hooks
    /\ uris \in SeqsUpTo(Uris, MaxEndpoints)
    /\ user \in BOOLEAN
    /\ relay0 \in BOOLEAN
    /\ Entry
    /\ given = NoGiven
    /\ reference = <<>>
    /\ parsed = NotParsed

(***************************************************************************)
(* doRequest (microservice.go:80-87) of the synchronous call in progress,  *)
(* as seen by call: what the request can give.  http.Client.Timeout is     *)
(* ms.timeout seconds and a Timeout of zero means no deadline: against an  *)
(* endpoint that stays silent the request ends with the deadline error     *)
(* when ms.timeout > 0 and does not end when ms.timeout = 0.               *)
(***************************************************************************)
doRequest(ms) ==
    IF remote = "silent"
    THEN (IF ms.timeout = 0 THEN {} ELSE {NetError})
    ELSE NetResults

\* a return statement: the run ends with the given stop
Return(st, path) ==
    /\ pc' = "done"
    /\ stop' = st
    /\ exitPath' = path

\* the deferred os.Remove(f.Name()) (microservice.go:311) runs at every return
\* that follows it
Deferred == IF tempFile = "exists" THEN "removed" ELSE tempFile

\* continue, or the end of the range loop and the return after it
NextUri(st) ==
    IF i < Len(uris)
    THEN /\ pc' = "loop"
         /\ i' = i + 1
         /\ stop' = st
         /\ UNCHANGED exitPath
    ELSE /\ Return(st, "Exhausted")
         /\ UNCHANGED i

\* ms.call(&msg) is entered: the request goes out and the caller waits
CallSync ==
    /\ pc' = "wait"
    /\ remote' \in {"answers", "silent"}
    /\ called' = Append(called, [ep |-> i, mode |-> "sync"])
    /\ UNCHANGED <<i, exitPath, tasks>>

\* go ms.call(&msg)
CallGo ==
    /\ called' = Append(called, [ep |-> i, mode |-> "go"])
    /\ tasks' = [tasks EXCEPT ![i] = "running"]
    /\ UNCHANGED remote

\* s.relayGranted set only when the response grants the relay
setRelayGrantedIfTrue(current, msg) == current \/ msg.ext.relayGranted

\* s.relayGranted = msResponse.GetRelayGranted() (microservice.go:277)
setRelayGranted(current, msg) == msg.ext.relayGranted

\* the headers of the response put in front of the accumulated ones
appendExtraHeadersFront(headers, msg) == msg.ext.extraHeaders \o headers

\* *extraHeaders = append(*extraHeaders, msResponse.GetExtraHeaders()...)
\* (microservice.go:364)
appendExtraHeaders(headers, msg) == headers \o msg.ext.extraHeaders

\* which of the two stopping returns of a decoded response is taken
StopPath(replied, drop) ==
    IF drop THEN (IF replied THEN "ReplyDrop" ELSE "Drop") ELSE "Reply"

(***************************************************************************)
(* msSmtpdNewClient (microservice.go:157-170): no endpoint, proto.Marshal      *)
(***************************************************************************)
msSmtpdNewClientEnter ==
    /\ hook = "smtpdnewclient"
    /\ pc = "start"
    /\ IF Len(uris) = 0
       THEN /\ Return(FALSE, "NoEndpoint")
            /\ UNCHANGED <<i, encoded>>
       ELSE \E marshalOk \in BOOLEAN :
              /\ encoded' = marshalOk
              /\ IF marshalOk
                 THEN /\ pc' = "loop"
                      /\ i' = 1
                      /\ UNCHANGED <<stop, exitPath>>
                 ELSE /\ Return(stop, "EncodeError")
                      /\ UNCHANGED i
    /\ UNCHANGED <<config, decoded, session, network, extraHeaders, routes, tempFile>>

(***************************************************************************)
(* msSmtpdNewClient (microservice.go:172-189): one turn of the range loop up to *)
(* the call: parse, skip, go ms.call or ms.call                            *)
(***************************************************************************)
msSmtpdNewClientLoop ==
    /\ hook = "smtpdnewclient"
    /\ pc = "loop"
    /\ LET p == newMicroservice(uris[i])
       IN IF p.err \/ (user /\ p.ms.skipAuthentifiedUser)
          THEN /\ NextUri(FALSE)
               /\ UNCHANGED <<called, tasks, remote>>
          ELSE IF p.ms.fireAndForget
          THEN /\ CallGo
               /\ NextUri(FALSE)
          ELSE /\ CallSync
               /\ stop' = FALSE
    /\ UNCHANGED <<config, decoded, session, policy, lastNet, lastRet, extraHeaders, routes,
                   tempFile, encoded>>

(***************************************************************************)
(* msSmtpdNewClient (microservice.go:191-222): ms.call returns; error           *)
(* handling, proto.Unmarshal, reply, drop                                  *)
(***************************************************************************)
msSmtpdNewClientResponse ==
    /\ hook = "smtpdnewclient"
    /\ pc = "wait"
    /\ remote' = "idle"
    /\ \E r \in doRequest(newMicroservice(uris[i]).ms) :
         LET ms  == newMicroservice(uris[i]).ms
             ret == call(r)
             dec == Unmarshal(ret.body)
             h   == handleSMTPResponse(dec.msg.smtpResponse)
         IN /\ lastNet' = r
            /\ lastRet' = ret
            /\ IF ret.err \/ dec.err
               THEN /\ policy' = policy \cup {i}
                    /\ UNCHANGED session
                    /\ IF stopOnError(ms)
                       THEN Return(stop, "PolicyHalt") /\ UNCHANGED i
                       ELSE NextUri(stop)
               ELSE /\ out' = out \o h.out
                    /\ exitAsap' = (exitAsap \/ dec.msg.dropConnection)
                    /\ UNCHANGED <<relayGranted, policy>>
                    /\ IF h.stop \/ dec.msg.dropConnection
                       THEN Return(TRUE, StopPath(h.stop, dec.msg.dropConnection))
                            /\ UNCHANGED i
                       ELSE NextUri(FALSE)
    /\ UNCHANGED <<config, decoded, called, tasks, extraHeaders, routes, tempFile, encoded>>

(***************************************************************************)
(* msSmtpdRcptTo (microservice.go:226-237): no endpoint, proto.Marshal      *)
(***************************************************************************)
msSmtpdRcptToEnter ==
    /\ hook = "smtpdrcptto"
    /\ pc = "start"
    /\ IF Len(uris) = 0
       THEN /\ Return(FALSE, "NoEndpoint")
            /\ UNCHANGED <<i, encoded>>
       ELSE \E marshalOk \in BOOLEAN :
              /\ encoded' = marshalOk
              /\ IF marshalOk
                 THEN /\ pc' = "loop"
                      /\ i' = 1
                      /\ UNCHANGED <<stop, exitPath>>
                 ELSE /\ Return(stop, "EncodeError")
                      /\ UNCHANGED i
    /\ UNCHANGED <<config, decoded, session, network, extraHeaders, routes, tempFile>>

(***************************************************************************)
(* msSmtpdRcptTo (microservice.go:239-256): one turn of the range loop up to *)
(* the call: parse, skip, go ms.call or ms.call                            *)
(***************************************************************************)
msSmtpdRcptToLoop ==
    /\ hook = "smtpdrcptto"
    /\ pc = "loop"
    /\ LET p == newMicroservice(uris[i])
       IN IF p.err \/ (user /\ p.ms.skipAuthentifiedUser)
          THEN /\ NextUri(FALSE)
               /\ UNCHANGED <<called, tasks, remote>>
          ELSE IF p.ms.fireAndForget
          THEN /\ CallGo
               /\ NextUri(FALSE)
          ELSE /\ CallSync
               /\ stop' = FALSE
    /\ UNCHANGED <<config, decoded, session, policy, lastNet, lastRet, extraHeaders, routes,
                   tempFile, encoded>>

(***************************************************************************)
(* msSmtpdRcptTo (microservice.go:258-291): ms.call returns; error           *)
(* handling, proto.Unmarshal, reply, drop                                  *)
(***************************************************************************)
msSmtpdRcptToResponse ==
    /\ hook = "smtpdrcptto"
    /\ pc = "wait"
    /\ remote' = "idle"
    /\ \E r \in doRequest(newMicroservice(uris[i]).ms) :
         LET ms  == newMicroservice(uris[i]).ms
             ret == call(r)
             dec == Unmarshal(ret.body)
             e   == handleSMTPError(ms)
             h   == handleSMTPResponse(dec.msg.smtpResponse)
         IN /\ lastNet' = r
            /\ lastRet' = ret
            /\ IF ret.err \/ dec.err
               THEN /\ policy' = policy \cup {i}
                    /\ out' = out \o e.out
                    /\ UNCHANGED <<exitAsap, relayGranted, lastGranted>>
                    /\ IF e.stop
                       THEN Return(TRUE, "PolicyHalt") /\ UNCHANGED i
                       ELSE NextUri(stop)
               ELSE /\ relayGranted' = setRelayGranted(relayGranted, dec.msg)
                    /\ lastGranted' = (IF dec.msg.ext.relayGranted THEN "granted" ELSE "denied")
                    /\ out' = out \o h.out
                    /\ exitAsap' = (exitAsap \/ dec.msg.dropConnection)
                    /\ UNCHANGED policy
                    /\ IF h.stop \/ dec.msg.dropConnection
                       THEN Return(TRUE, StopPath(h.stop, dec.msg.dropConnection))
                            /\ UNCHANGED i
                       ELSE NextUri(FALSE)
    /\ UNCHANGED <<config, headerLog, called, tasks, extraHeaders, routes, tempFile, encoded>>

\* smtpdData creating the temporary file before it looks at the endpoint list
smtpdDataEnterTempFirst ==
    /\ hook = "smtpddata"
    /\ pc = "start"
    /\ \E tempOk, writeOk, marshalOk \in BOOLEAN :
         IF ~tempOk
         THEN /\ Return(FALSE, "TempFileError")
              /\ UNCHANGED <<i, encoded, tempFile>>
         ELSE IF ~writeOk
         THEN /\ tempFile' = "exists"
              /\ Return(FALSE, "WriteError")
              /\ UNCHANGED <<i, encoded>>
         ELSE IF Len(uris) = 0
         THEN /\ tempFile' = "removed"
              /\ Return(FALSE, "NoEndpoint")
              /\ UNCHANGED <<i, encoded>>
         ELSE IF ~marshalOk
         THEN /\ tempFile' = "removed"
              /\ encoded' = FALSE
              /\ Return(stop, "EncodeError")
              /\ UNCHANGED i
         ELSE /\ tempFile' = "exists"
              /\ encoded' = TRUE
              /\ pc' = "loop"
              /\ i' = 1
              /\ UNCHANGED <<stop, exitPath>>
    /\ UNCHANGED <<config, decoded, session, network, extraHeaders, routes>>

(***************************************************************************)
(* smtpdData (microservice.go:295-332): no endpoint, ioutil.TempFile,   *)
(* f.Write, defer os.Remove, proto.Marshal                                 *)
(***************************************************************************)
smtpdDataEnter ==
    /\ hook = "smtpddata"
    /\ pc = "start"
    /\ IF Len(uris) = 0
       THEN /\ Return(FALSE, "NoEndpoint")
            /\ UNCHANGED <<i, encoded, tempFile>>
       ELSE \E tempOk, writeOk, marshalOk \in BOOLEAN :
              IF ~tempOk
              THEN /\ Return(FALSE, "TempFileError")
                   /\ UNCHANGED <<i, encoded, tempFile>>
              ELSE IF ~writeOk
              THEN /\ tempFile' = "exists"
                   /\ Return(FALSE, "WriteError")
                   /\ UNCHANGED <<i, encoded>>
              ELSE IF ~marshalOk
              THEN /\ tempFile' = "removed"
                   /\ encoded' = FALSE
                   /\ Return(stop, "EncodeError")
                   /\ UNCHANGED i
              ELSE /\ tempFile' = "exists"
                   /\ encoded' = TRUE
                   /\ pc' = "loop"
                   /\ i' = 1
                   /\ UNCHANGED <<stop, exitPath>>
    /\ UNCHANGED <<config, decoded, session, network, extraHeaders, routes>>

(***************************************************************************)
(* smtpdData (microservice.go:334-345): one turn of the range loop up to *)
(* the call: parse, skip, ms.call (fireAndForget is not read here)         *)
(***************************************************************************)
smtpdDataLoop ==
    /\ hook = "smtpddata"
    /\ pc = "loop"
    /\ LET p == newMicroservice(uris[i])
       IN IF p.err \/ (user /\ p.ms.skipAuthentifiedUser)
          THEN /\ NextUri(FALSE)
               /\ UNCHANGED <<called, tasks, remote>>
          ELSE /\ CallSync
               /\ UNCHANGED stop
    /\ tempFile' = (IF pc' = "done" THEN Deferred ELSE tempFile)
    /\ UNCHANGED <<config, decoded, session, policy, lastNet, lastRet, extraHeaders, routes,
                   encoded>>

(***************************************************************************)
(* smtpdData (microservice.go:346-377): ms.call returns; error           *)
(* handling, proto.Unmarshal, reply, drop                                  *)
(***************************************************************************)
smtpdDataResponse ==
    /\ hook = "smtpddata"
    /\ pc = "wait"
    /\ remote' = "idle"
    /\ \E r \in doRequest(newMicroservice(uris[i]).ms) :
         LET ms  == newMicroservice(uris[i]).ms
             ret == call(r)
             dec == Unmarshal(ret.body)
             e   == handleSMTPError(ms)
             h   == handleSMTPResponse(dec.msg.smtpResponse)
         IN /\ lastNet' = r
            /\ lastRet' = ret
            /\ IF ret.err \/ dec.err
               THEN /\ policy' = policy \cup {i}
                    /\ out' = out \o e.out
                    /\ UNCHANGED <<exitAsap, relayGranted, extraHeaders, headerLog>>
                    /\ IF e.stop
                       THEN Return(TRUE, "PolicyHalt") /\ UNCHANGED i
                       ELSE NextUri(FALSE)
               ELSE /\ extraHeaders' = appendExtraHeaders(extraHeaders, dec.msg)
                    /\ headerLog' = Append(headerLog, dec.msg.ext.extraHeaders)
                    /\ out' = out \o h.out
                    /\ exitAsap' = (exitAsap \/ dec.msg.dropConnection)
                    /\ UNCHANGED <<relayGranted, policy>>
                    /\ IF h.stop \/ dec.msg.dropConnection
                       THEN Return(TRUE, StopPath(h.stop, dec.msg.dropConnection))
                            /\ UNCHANGED i
                       ELSE NextUri(FALSE)
    /\ tempFile' = (IF pc' = "done" THEN Deferred ELSE tempFile)
    /\ UNCHANGED <<config, lastGranted, called, tasks, routes, encoded>>

(***************************************************************************)
(* msGetRoutes (microservice.go:381-395): no endpoint; proto.Marshal,      *)
(* whose error is overwritten at line 399 before anything reads it         *)
(***************************************************************************)
msGetRoutesEnter ==
    /\ hook = "deliverdgetroutes"
    /\ pc = "start"
    /\ IF Len(uris) = 0
       THEN /\ Return(FALSE, "NoEndpoint")
            /\ UNCHANGED <<i, encoded>>
       ELSE \E marshalOk \in BOOLEAN :
              /\ encoded' = marshalOk
              /\ pc' = "loop"
              /\ i' = 1
              /\ UNCHANGED <<stop, exitPath>>
    /\ UNCHANGED <<config, decoded, session, network, extraHeaders, routes, tempFile>>

(***************************************************************************)
(* msGetRoutes (microservice.go:397-406): msURI[0] is parsed and called.   *)
(* On a parse error ms is nil and ms.stopOnError() reads ms.onFailure: a   *)
(* nil pointer dereference, the goroutine panics.                          *)
(***************************************************************************)
msGetRoutesLoop ==
    /\ hook = "deliverdgetroutes"
    /\ pc = "loop"
    /\ LET p == newMicroservice(uris[i])
       IN IF p.err
          THEN /\ pc' = "panic"
               /\ exitPath' = "Panic"
               /\ UNCHANGED <<i, called, tasks, remote>>
          ELSE CallSync
    /\ UNCHANGED <<config, decoded, session, policy, lastNet, lastRet, extraHeaders, routes,
                   tempFile, encoded, stop>>

\* msGetRoutes going on to the next endpoint when the call fails and the
\* policy does not stop, as the loops of the smtpd hooks do
msGetRoutesResponseNext ==
    /\ hook = "deliverdgetroutes"
    /\ pc = "wait"
    /\ remote' = "idle"
    /\ \E r \in doRequest(newMicroservice(uris[i]).ms) :
         LET ms  == newMicroservice(uris[i]).ms
             ret == call(r)
             dec == Unmarshal(ret.body)
         IN /\ lastNet' = r
            /\ lastRet' = ret
            /\ IF ret.err \/ dec.err
               THEN /\ policy' = policy \cup {i}
                    /\ routes' = NilRoutes
                    /\ IF stopOnError(ms)
                       THEN Return(TRUE, "CallError") /\ UNCHANGED i
                       ELSE NextUri(FALSE)
               ELSE /\ routes' = [nil |-> FALSE,
                                  list |-> [k \in 1..Len(dec.msg.ext.routes) |->
                                              ToRoute(dec.msg.ext.routes[k])]]
                    /\ Return(FALSE, "Routes")
                    /\ UNCHANGED <<policy, i>>
    /\ UNCHANGED <<config, decoded, session, called, tasks, extraHeaders, tempFile, encoded>>

(***************************************************************************)
(* msGetRoutes (microservice.go:406-437): ms.call returns; error handling, *)
(* proto.Unmarshal, the routes                                             *)
(***************************************************************************)
msGetRoutesResponse ==
    /\ hook = "deliverdgetroutes"
    /\ pc = "wait"
    /\ remote' = "idle"
    /\ \E r \in doRequest(newMicroservice(uris[i]).ms) :
         LET ms  == newMicroservice(uris[i]).ms
             ret == call(r)
             dec == Unmarshal(ret.body)
         IN /\ lastNet' = r
            /\ lastRet' = ret
            /\ IF ret.err
               THEN /\ policy' = policy \cup {i}
                    /\ routes' = NilRoutes
                    /\ Return(stopOnError(ms), "CallError")
               ELSE IF dec.err
               THEN /\ policy' = policy \cup {i}
                    /\ UNCHANGED routes
                    /\ Return(stopOnError(ms), "DecodeError")
               ELSE IF Len(dec.msg.ext.routes) = 0
               THEN /\ routes' = NilRoutes
                    /\ Return(FALSE, "NoRoutes")
                    /\ UNCHANGED policy
               ELSE /\ routes' = [nil |-> FALSE,
                                  list |-> [k \in 1..Len(dec.msg.ext.routes) |->
                                              ToRoute(dec.msg.ext.routes[k])]]
                    /\ Return(FALSE, "Routes")
                    /\ UNCHANGED policy
    /\ UNCHANGED <<config, decoded, session, called, tasks, extraHeaders, tempFile, encoded, i>>

(***************************************************************************)
(* The goroutine of go ms.call(&msg) (microservice.go:187, 254): it runs   *)
(* call whenever it is scheduled, also after the hook has returned, and    *)
(* nothing reads what call returns.                                        *)
(***************************************************************************)
DetachedCall ==
    \E k \in DOMAIN tasks :
        /\ tasks[k] = "running"
        /\ \E failed \in {call(r).err : r \in NetResults} :
             tasks' = [tasks EXCEPT ![k] = IF failed THEN "err" ELSE "ok"]
        /\ UNCHANGED <<config, decoded, session, pc, i, stop, exitPath, extraHeaders, routes,
                       tempFile, encoded, called, policy, lastNet, lastRet, remote>>

Next ==
    \/ msSmtpdNewClientEnter
    \/ msSmtpdNewClientLoop
    \/ msSmtpdNewClientResponse
    \/ msSmtpdRcptToEnter
    \/ msSmtpdRcptToLoop
    \/ msSmtpdRcptToResponse
    \/ smtpdDataEnter
    \/ smtpdDataLoop
    \/ smtpdDataResponse
    \/ msGetRoutesEnter
    \/ msGetRoutesLoop
    \/ msGetRoutesResponse
    \/ DetachedCall

Spec == Init /\ [][Next]_vars

(***************************************************************************)
(* Vocabulary of the properties                                            *)
(***************************************************************************)
SessionHooks == {"smtpdnewclient", "smtpdrcptto", "smtpddata"}

\* the descriptor of the endpoint at position k (k is a position the loop
\* got past the parser with)
Endpoint(k) == newMicroservice(uris[k]).ms

HaltsOnFailure(k) == Endpoint(k).onFailure \in {TEMPFAIL, PERMFAIL}

\* the endpoint of the latest call started
LastCalled == called[Len(called)].ep

\* the code handleSMTPError is to answer with
PolicyCode(k) == IF Endpoint(k).onFailure = TEMPFAIL THEN 450 ELSE 550

\* the last synchronous call got a body that decoded
LastDecoded == lastNet.kind = "http" /\ ~lastRet.err /\ lastRet.body.wellFormed

\* a response carries a reply when its code is nonzero and its message nonempty
CarriesReply(m) ==
    m.smtpResponse.present /\ m.smtpResponse.code # 0 /\ m.smtpResponse.msg # ""

(***************************************************************************)
(* C1 (as stated): in NewClient, RcptTo and Data, once a synchronously     *)
(* called endpoint with onFailure TempFail or PermFail has failed          *)
(* (transport or decode), the run has halted at that endpoint, no later    *)
(* endpoint was contacted and exactly one reply was written: 450 for       *)
(* TempFail, 550 for PermFail.                                             *)
(***************************************************************************)
C1_HaltWritesReply ==
    hook \in SessionHooks =>
        \A k \in policy :
            HaltsOnFailure(k) =>
                /\ pc = "done"
                /\ i = k
                /\ LastCalled = k
                /\ out = <<[code |-> PolicyCode(k), msg |-> ErrorText]>>

(***************************************************************************)
(* C1 (amended): the same for RcptTo and Data; in NewClient the run halts  *)
(* at that endpoint and contacts no later endpoint, but no reply is        *)
(* written.                                                                *)
(***************************************************************************)
C1_HaltWritesReplyButNewClient ==
    hook \in SessionHooks =>
        \A k \in policy :
            HaltsOnFailure(k) =>
                /\ pc = "done"
                /\ i = k
                /\ LastCalled = k
                /\ out = IF hook = "smtpdnewclient" THEN <<>>
                         ELSE <<[code |-> PolicyCode(k), msg |-> ErrorText]>>

\* a Data run halted by the decode failure of its first endpoint of two,
\* a PermFail one, with the 550 written
C1_Witness ==
    /\ hook = "smtpddata"
    /\ Len(uris) = 2
    /\ policy = {1}
    /\ Endpoint(1).onFailure = PERMFAIL
    /\ lastNet.kind = "http" /\ ~lastRet.err /\ ~lastRet.body.wellFormed
    /\ pc = "done"
    /\ out = <<[code |-> 550, msg |-> ErrorText]>>

C3_FireAndForgetDetached ==
    hook \in SessionHooks =>
        /\ \A n \in 1..Len(called) :
              Endpoint(called[n].ep).fireAndForget => called[n].mode = "go"
        /\ \A k \in policy : ~Endpoint(k).fireAndForget
        /\ (pc = "wait" => ~Endpoint(i).fireAndForget)

(***************************************************************************)
(* C4: an endpoint configured skipauthentifieduser=true is never contacted *)
(* (neither synchronously nor detached) and has no failure policy          *)
(* evaluated when the session is authenticated.                            *)
(***************************************************************************)
C4_SkipAuthentified ==
    user =>
        /\ \A n \in 1..Len(called) : ~Endpoint(called[n].ep).skipAuthentifiedUser
        /\ \A k \in policy : ~Endpoint(k).skipAuthentifiedUser
        /\ \A k \in DOMAIN tasks :
              tasks[k] # "none" => ~Endpoint(k).skipAuthentifiedUser

(***************************************************************************)
(* C5: within one hook run the calls (synchronous calls and go statements) *)
(* are started strictly in configured order, each endpoint at most once,   *)
(* and once an endpoint has produced a halting outcome (policy halt on     *)
(* failure, reply written, drop requested) the run is over and no endpoint *)
(* later in the list has been contacted.  A goroutine started earlier may  *)
(* still run after the halt: it belongs to an earlier endpoint.            *)
(***************************************************************************)
C5_OrderedAndHalting ==
    /\ \A m, n \in 1..Len(called) : m < n => called[m].ep < called[n].ep
    /\ \A k \in DOMAIN tasks :
          tasks[k] # "none" => \E n \in 1..Len(called) : called[n] = [ep |-> k, mode |-> "go"]
    /\ (/\ hook \in SessionHooks
        /\ (out # <<>> \/ exitAsap \/ \E k \in policy : HaltsOnFailure(k)))
       => /\ pc = "done"
          /\ LastCalled = i
          /\ \A n \in 1..Len(called) : called[n].ep <= i

\* a RcptTo run halted by the reply of the first endpoint of two: the second
\* was never called
C5_Witness ==
    /\ hook = "smtpdrcptto"
    /\ Len(uris) = 2
    /\ called = <<[ep |-> 1, mode |-> "sync"]>>
    /\ Len(out) = 1
    /\ pc = "done"

(***************************************************************************)
(* C6: in NewClient, RcptTo and Data a decoded response with               *)
(* dropConnection=true and no reply (no SmtpResponse, code zero or empty   *)
(* message) requests session termination, writes no reply, and the run     *)
(* returns stop=true at once, no later endpoint contacted.                 *)
(***************************************************************************)
C6_DropWithoutReply ==
    (/\ hook \in SessionHooks
     /\ LastDecoded
     /\ lastRet.body.msg.dropConnection
     /\ ~CarriesReply(lastRet.body.msg))
    => /\ exitAsap
       /\ out = <<>>
       /\ pc = "done"
       /\ stop = TRUE
       /\ LastCalled = i

\* a RcptTo run stopped at the first endpoint of two by a drop whose
\* SmtpResponse has a message and code zero
C6_Witness ==
    /\ hook = "smtpdrcptto"
    /\ Len(uris) = 2
    /\ i = 1
    /\ LastDecoded
    /\ lastRet.body.msg.dropConnection
    /\ lastRet.body.msg.smtpResponse = Smtp(0, "no")
    /\ exitAsap
    /\ stop = TRUE
    /\ pc = "done"

(***************************************************************************)
(* C7: with no endpoint configured for the hook the run returns stop=false *)
(* and an empty aggregate (no header, an empty route list), makes no       *)
(* network call, creates no temporary file and leaves the session as it    *)
(* was.                                                                    *)
(***************************************************************************)
C7_NoEndpointNoEffect ==
    Len(uris) = 0 =>
        /\ pc \in {"start", "done"}
        /\ stop = FALSE
        /\ extraHeaders = <<>>
        /\ routes = [nil |-> FALSE, list |-> <<>>]
        /\ called = <<>>
        /\ \A k \in DOMAIN tasks : tasks[k] = "none"
        /\ lastNet.kind = "none"
        /\ tempFile = "none"
        /\ out = <<>>
        /\ ~exitAsap
        /\ relayGranted = relay0

\* a Data run without endpoints has returned, in a session whose relay flag
\* was set
C7_Witness ==
    /\ hook = "smtpddata"
    /\ Len(uris) = 0
    /\ relay0
    /\ pc = "done"
    /\ exitPath = "NoEndpoint"

(***************************************************************************)
(* C8: a GetRoutes run makes at most one network call, to the first        *)
(* configured endpoint; no endpoint at position two or later is ever       *)
(* called, whatever the first call gave.                                   *)
(***************************************************************************)
C8_GetRoutesFirstOnly ==
    hook = "deliverdgetroutes" =>
        /\ Len(called) <= 1
        /\ \A n \in 1..Len(called) : called[n] = [ep |-> 1, mode |-> "sync"]
        /\ \A k \in DOMAIN tasks : tasks[k] = "none"
        /\ i <= 1

\* a GetRoutes run of two endpoints is over after the call of the first, a
\* Continue one, failed
C8_Witness ==
    /\ hook = "deliverdgetroutes"
    /\ Len(uris) = 2
    /\ Endpoint(1).onFailure = CONTINUE
    /\ lastRet.err
    /\ called = <<[ep |-> 1, mode |-> "sync"]>>
    /\ pc = "done"

(***************************************************************************)
(* C9: when a Data run has returned, the temporary file created for the    *)
(* message body has been removed, on every exit path.                      *)
(***************************************************************************)
C9_TempFileRemoved ==
    (hook = "smtpddata" /\ pc = "done") => tempFile # "exists"

(***************************************************************************)
(* C10: call returns an error for every response whose status is not in    *)
(* 200..299, whatever the body, and returns the raw body without error     *)
(* only for a 2xx status.                                                  *)
(***************************************************************************)
C10_Non2xxIsError ==
    lastNet.kind = "http" =>
        /\ lastRet.err <=> lastNet.status \notin 200..299
        /\ ~lastRet.err => lastRet.body = lastNet.body

(***************************************************************************)
(* C11: in every hook (NewClient, RcptTo, Data, GetRoutes) an endpoint     *)
(* reference the parser rejects never crashes the run: the endpoint is not *)
(* contacted and the run goes on and completes normally.                   *)
(***************************************************************************)
C11_MalformedIsSkipped ==
    /\ pc # "panic"
    /\ \A n \in 1..Len(called) : ~newMicroservice(uris[called[n].ep]).err
    /\ \A k \in policy : ~newMicroservice(uris[k]).err
    /\ (pc = "done" /\ i >= 1 /\ newMicroservice(uris[i]).err) => exitPath = "Exhausted"

(***************************************************************************)
(* C13: in NewClient, RcptTo and Data the stop returned is true exactly    *)
(* when the run ended Stopped (policy halt on a TempFail/PermFail failure, *)
(* reply written from a response, or drop requested) and false exactly     *)
(* when it ended Exhausted.                                                *)
(***************************************************************************)
C13_StopIffStopped ==
    (hook \in SessionHooks /\ pc = "done") =>
        /\ (out # <<>> \/ exitAsap \/ \E k \in policy : HaltsOnFailure(k)) => stop = TRUE
        /\ exitPath \in {"Exhausted", "NoEndpoint"} => stop = FALSE

(***************************************************************************)
(* C14: in every hook (GetRoutes included), when encoding the invocation   *)
(* context into the payload fails, the run is aborted before any endpoint  *)
(* is contacted: no network call and no reply written to the session.      *)
(***************************************************************************)
C14_EncodeFailureAborts ==
    (pc # "start" /\ ~encoded) =>
        /\ pc = "done"
        /\ called = <<>>
        /\ out = <<>>

(***************************************************************************)
(* C15: the reply of a decoded response is written to the session and      *)
(* halts the run with stop=true if and only if its code is nonzero and its *)
(* message nonempty; otherwise nothing is written and, unless the response *)
(* asks for dropConnection, the run continues with the next endpoint.      *)
(***************************************************************************)
C15_ReplyIffCodeAndMsg ==
    (hook \in SessionHooks /\ LastDecoded /\ pc # "wait") =>
        LET m == lastRet.body.msg
        IN IF CarriesReply(m)
           THEN /\ out = <<[code |-> m.smtpResponse.code, msg |-> m.smtpResponse.msg]>>
                /\ pc = "done"
                /\ stop = TRUE
                /\ LastCalled = i
           ELSE /\ out = <<>>
                /\ ~m.dropConnection =>
                      IF LastCalled < Len(uris)
                      THEN i > LastCalled
                      ELSE pc = "done" /\ stop = FALSE /\ exitPath = "Exhausted"

\* a Data run whose first endpoint of two answered with a code and an empty
\* message: nothing was written and the second endpoint is next
C15_Witness ==
    /\ hook = "smtpddata"
    /\ Len(uris) = 2
    /\ LastDecoded
    /\ lastRet.body.msg.smtpResponse = Smtp(554, "")
    /\ ~lastRet.body.msg.dropConnection
    /\ called = <<[ep |-> 1, mode |-> "sync"]>>
    /\ out = <<>>
    /\ pc = "loop"
    /\ i = 2

(***************************************************************************)
(* C19: during one run of NewClient, RcptTo or Data at most one reply is   *)
(* written to the session (one from a response or one synthesized 450/550, *)
(* never two), and once a reply is written the run is over: no further     *)
(* endpoint is contacted.                                                  *)
(***************************************************************************)
C19_AtMostOneReply ==
    hook \in SessionHooks =>
        /\ Len(out) <= 1
        /\ out # <<>> => (pc = "done" /\ LastCalled = i /\ stop = TRUE)

\* a RcptTo run whose second endpoint answered with a reply after the first,
\* a Continue one, failed: one reply on the session
C19_Witness ==
    /\ hook = "smtpdrcptto"
    /\ Len(uris) = 2
    /\ policy = {1}
    /\ called = <<[ep |-> 1, mode |-> "sync"], [ep |-> 2, mode |-> "sync"]>>
    /\ out = <<[code |-> 554, msg |-> "no"]>>
    /\ pc = "done"

(***************************************************************************)
(* C16: the hook's extension data (RcptTo relay-granted flag, Data extra   *)
(* headers) is folded only from a response that neither carries a reply    *)
(* nor asks for dropConnection: the step that handles a response which     *)
(* stops the run leaves the relay-granted flag and the header list as they *)
(* were.                                                                   *)
(***************************************************************************)
C16_StoppingResponseFoldsNothing ==
    [][(/\ hook \in SessionHooks
        /\ pc = "wait"
        /\ pc' = "done"
        /\ lastNet'.kind = "http" /\ ~lastRet'.err /\ lastRet'.body.wellFormed
        /\ (CarriesReply(lastRet'.body.msg) \/ lastRet'.body.msg.dropConnection))
       => (relayGranted' = relayGranted /\ extraHeaders' = extraHeaders)]_vars

(***************************************************************************)
(* C17: in a RcptTo run the session's relay-granted flag is the flag of    *)
(* the last response decoded so far (last call wins, a response without    *)
(* the flag counting as false) and is the value it had before the run when *)
(* no response was decoded.                                                *)
(***************************************************************************)
C17_RelayGrantedLastWins ==
    hook = "smtpdrcptto" =>
        relayGranted = IF lastGranted = "none" THEN relay0 ELSE lastGranted = "granted"

\* a RcptTo run in a session without the flag: the first endpoint granted the
\* relay, the second, a Continue one, failed, and the flag is still set
C17_Witness ==
    /\ hook = "smtpdrcptto"
    /\ Len(uris) = 2
    /\ relay0 = FALSE
    /\ lastGranted = "granted"
    /\ policy = {2}
    /\ lastRet.err
    /\ relayGranted = TRUE
    /\ pc = "done"

RECURSIVE Flatten(_)
Flatten(lists) ==
    IF lists = <<>> THEN <<>> ELSE Head(lists) \o Flatten(Tail(lists))

(***************************************************************************)
(* C18: the extra-header list of a Data run is the concatenation, in       *)
(* endpoint order, of the extra headers of the responses decoded during    *)
(* the run; skipped, malformed and failed endpoints add nothing, and the   *)
(* headers are returned with stop=true as well.                            *)
(***************************************************************************)
C18_HeadersConcatenated ==
    hook = "smtpddata" =>
        /\ extraHeaders = Flatten(headerLog)
        /\ Len(headerLog) <= Len(called) - Cardinality(policy)

\* a Data run of two endpoints stopped by the reply of the second: the
\* headers of both are returned in order
C18_Witness ==
    /\ hook = "smtpddata"
    /\ headerLog = << <<"X-A">>, <<"X-B">> >>
    /\ extraHeaders = <<"X-A", "X-B">>
    /\ Len(out) = 1
    /\ stop = TRUE
    /\ pc = "done"

(***************************************************************************)
(* C20: a synchronous call always returns, also when the endpoint never    *)
(* answers, for every reference the parser accepts (timeout=0 included):   *)
(* a run that is inside a call can take its next step.                     *)
(***************************************************************************)
CallReturns ==
    \/ msSmtpdNewClientResponse
    \/ msSmtpdRcptToResponse
    \/ smtpdDataResponse
    \/ msGetRoutesResponse

C20_CallAlwaysReturns ==
    pc = "wait" => ENABLED CallReturns

(***************************************************************************)
(* Parsing alone: a reference of Givens is written out and newMicroservice *)
(* is applied to its text.                                                 *)
(***************************************************************************)
InitParse ==
    /\ hook = "smtpdnewclient"
    /\ uris = <<>>
    /\ user = FALSE
    /\ relay0 = FALSE
    /\ Entry
    /\ given \in Givens
    /\ reference = Render(given)
    /\ parsed = NotParsed

ParseReference ==
    /\ ~parsed.done
    /\ parsed' = [done |-> TRUE, err |-> parseUri(reference).err,
                  url |-> parseUri(reference).url, ms |-> parseUri(reference).ms]
    /\ UNCHANGED <<hook, uris, user, relay0, given, reference, pc, i, stop, exitPath,
                   decoded, session, network, extraHeaders, routes, tempFile, encoded>>

NextParse == ParseReference

SpecParse == InitParse /\ [][NextParse]_vars

\* the parameter of the given reference that counts: the first of its name
Present(name) == \E n \in 1..Len(given.params) : given.params[n].key = name

ValueOf(name) ==
    given.params[CHOOSE n \in 1..Len(given.params) :
                     /\ given.params[n].key = name
                     /\ \A j \in 1..(n - 1) : given.params[j].key # name].value

Is(name, word) == Present(name) /\ ValueOf(name) = <<word>>

Unsigned(value) ==
    /\ value # <<>>
    /\ \A k \in 1..Len(value) :
           value[k] \in {"0", "1", "2", "3", "4", "5", "6", "7", "8", "9"}

\* what the claim says of everything but the timeout
ParsedOtherwise ==
    /\ parsed.url = <<given.address>>
    /\ parsed.ms.skipAuthentifiedUser = Is("skipauthentifieduser", "true")
    /\ parsed.ms.fireAndForget = Is("fireandforget", "true")
    /\ parsed.ms.onFailure = (IF Is("onfailure", "tempfail") THEN TEMPFAIL
                              ELSE IF Is("onfailure", "permfail") THEN PERMFAIL
                              ELSE CONTINUE)

(***************************************************************************)
(* C12: parsing a reference gives: address = the reference up to its first *)
(* "?"; skipIfAuthenticated and fireAndForget true exactly when their      *)
(* parameter is "true"; timeoutSeconds = the timeout parameter, 30 when it *)
(* is absent, and a ConfigError when it is present but not an unsigned     *)
(* integer; onFailure = TempFail/PermFail for tempfail/permfail, Continue  *)
(* otherwise; unknown parameters are ignored.                              *)
(***************************************************************************)
C12_ParseReference ==
    parsed.done =>
        /\ parsed.err = (Present("timeout") /\ ~Unsigned(ValueOf("timeout")))
        /\ ~parsed.err =>
               /\ ParsedOtherwise
               /\ parsed.ms.timeout = (IF Present("timeout")
                                       THEN DecimalValue(ValueOf("timeout"))
                                       ELSE DefaultTimeout)

(***************************************************************************)
(* C12, amended: as above, but the timeout is 30 when the parameter is     *)
(* absent or has the empty value, and the ConfigError is for a non-empty   *)
(* value that is not an unsigned integer; of a repeated parameter the      *)
(* first occurrence counts.                                                *)
(***************************************************************************)
C12_ParseReferenceEmptyTimeout ==
    parsed.done =>
        LET timed == Present("timeout") /\ ValueOf("timeout") # <<>>
        IN /\ parsed.err = (timed /\ ~Unsigned(ValueOf("timeout")))
           /\ ~parsed.err =>
                  /\ ParsedOtherwise
                  /\ parsed.ms.timeout = (IF timed THEN DecimalValue(ValueOf("timeout"))
                                          ELSE DefaultTimeout)

\* "http://h/x?timeout=5&onfailure=permfail" parsed
C12_Witness ==
    /\ reference = <<"http://h/x", "?", "timeout", "=", "5", "&", "onfailure", "=", "permfail">>
    /\ parsed.done /\ ~parsed.err
    /\ parsed.url = <<"http://h/x">>
    /\ parsed.ms = [skipAuthentifiedUser |-> FALSE, fireAndForget |-> FALSE,
                    timeout |-> 5, onFailure |-> PERMFAIL]

====
